---- MODULE Spec2Model ----
(***************************************************************************)
(* Model of the tool-metadata extractors of parse_chem_tools:              *)
(*   parse_cactus.py        CactusToolParser (class-based extractor)       *)
(*   parse_chemtoolbench.py parse_chemistry_tools (function-based)         *)
(*                                                                         *)
(* Text is a sequence of tokens.  A token is a word ("Parameters", "x"),   *)
(* a punctuation character (":", "-", "(", ")", ","), a blank " " or the   *)
(* newline NL, so that startswith, `in', strip, split, replace and join    *)
(* are computed on the text and not assumed.                               *)
(* A Python value is a record [t, s]: t is the type name, s the text.      *)
(***************************************************************************)
EXTENDS Naturals, Sequences, FiniteSets, TLC

VARIABLES tree, pc, constants, todo, tools, src

vars == <<tree, pc, constants, todo, tools, src>>

-----------------------------------------------------------------------------
(* Bounds of the explored inputs.                                          *)

MaxNodes == 3
MaxStmts == 3
MaxLines == 3
MaxArgs == 2

-----------------------------------------------------------------------------
(* Python values and str methods.                                          *)

NL == "\n"

PyStr(s) == [t |-> "str", s |-> s]

PyNone == [t |-> "NoneType", s |-> <<>>]

PyInt(s) == [t |-> "int", s |-> s]

\* bool(v): a str is true when non-empty, an int when non-zero, None never.
Truthy(v) ==
    CASE v.t = "str" -> v.s # <<>>
      [] v.t = "int" -> v.s # <<"0">>
      [] OTHER -> FALSE

IsSpace(c) == c \in {" ", NL}

RECURSIVE lstrip(_)
lstrip(s) == IF s # <<>> /\ IsSpace(Head(s)) THEN lstrip(Tail(s)) ELSE s

RECURSIVE rstrip(_)
rstrip(s) ==
    IF s # <<>> /\ IsSpace(s[Len(s)]) THEN rstrip(SubSeq(s, 1, Len(s) - 1)) ELSE s

\* str.strip()
strip(s) == rstrip(lstrip(s))

\* str.startswith(p)
startswith(s, p) == Len(s) >= Len(p) /\ SubSeq(s, 1, Len(p)) = p

\* c in s, for a one-character c
Contains(s, c) == \E i \in 1..Len(s) : s[i] = c

\* str.split(sep) for a one-token separator: always at least one piece.
RECURSIVE SplitAcc(_, _, _)
SplitAcc(s, sep, cur) ==
    IF s = <<>> THEN <<cur>>
    ELSE IF Head(s) = sep THEN <<cur>> \o SplitAcc(Tail(s), sep, <<>>)
    ELSE SplitAcc(Tail(s), sep, Append(cur, Head(s)))

split(s, sep) == SplitAcc(s, sep, <<>>)

\* sep.join(parts)
RECURSIVE join(_, _)
join(parts, sep) ==
    IF parts = <<>> THEN <<>>
    ELSE IF Len(parts) = 1 THEN parts[1]
    ELSE parts[1] \o sep \o join(Tail(parts), sep)

\* str.replace(old, ""): every non-overlapping occurrence, left to right.
RECURSIVE Remove(_, _)
Remove(s, old) ==
    IF s = <<>> THEN <<>>
    ELSE IF startswith(s, old) THEN Remove(SubSeq(s, Len(old) + 1, Len(s)), old)
    ELSE <<Head(s)>> \o Remove(Tail(s), old)

-----------------------------------------------------------------------------
(* The syntax tree.  tree.body is the sequence of simple statements at     *)
(* module level; tree.nodes is the sequence of compound statements in      *)
(* document order (pre-order), each with its parent (0 is the Module).     *)
(* A simple statement is [kind, targets, value]; an expression is          *)
(* [type, id, value] with type "Constant", "Name" or "Absent".             *)
(* A compound statement is [kind, parent, name, stmts, doc, args, returns]:*)
(* stmts are the simple statements of its body, doc is what                *)
(* ast.get_docstring returns for it (None or a str), args its declared     *)
(* parameters [arg, annotation] and returns its return annotation, both    *)
(* annotations as ast.unparse prints them, "None" when absent.             *)

ConstantExpr(v) == [type |-> "Constant", id |-> "", value |-> v]

NameExpr(id) == [type |-> "Name", id |-> id, value |-> PyNone]

AbsentExpr == [type |-> "Absent", id |-> "", value |-> PyNone]

AnnAssign(id, value) == [kind |-> "AnnAssign", targets |-> <<NameExpr(id)>>, value |-> value]

Assign(ids, value) ==
    [kind |-> "Assign", targets |-> [i \in 1..Len(ids) |-> NameExpr(ids[i])], value |-> value]

\* ast.iter_child_nodes restricted to the statements that can hold a
\* definition: the compound children of node n, in document order.
RECURSIVE ChildrenFrom(_, _, _)
ChildrenFrom(t, n, i) ==
    IF i > Len(t.nodes) THEN <<>>
    ELSE IF t.nodes[i].parent = n THEN <<i>> \o ChildrenFrom(t, n, i + 1)
    ELSE ChildrenFrom(t, n, i + 1)

\* Mutation: the children are visited last to first.
RECURSIVE Reverse(_)
Reverse(q) == IF q = <<>> THEN <<>> ELSE Append(Reverse(Tail(q)), Head(q))

Children_Reversed(t, n) == Reverse(ChildrenFrom(t, n, 1))

Children(t, n) == ChildrenFrom(t, n, 1)

-----------------------------------------------------------------------------
(* parse_cactus.py                                                         *)

\* One statement of the loop of _extract_module_constants.
ConstantsStep(table, node) ==
    IF node.kind = "Assign"
    THEN IF Len(node.targets) = 1 /\ node.targets[1].type = "Name"
            /\ node.value.type = "Constant" /\ node.value.value.t = "str"
         THEN [k \in DOMAIN table \cup {node.targets[1].id} |->
                 IF k = node.targets[1].id THEN PyStr(strip(node.value.value.s))
                 ELSE table[k]]
         ELSE table
    ELSE IF node.kind = "AnnAssign"
    THEN IF node.targets[1].type = "Name" /\ node.value.type # "Absent"
            /\ node.value.type = "Constant" /\ node.value.value.t = "str"
         THEN [k \in DOMAIN table \cup {node.targets[1].id} |->
                 IF k = node.targets[1].id THEN PyStr(strip(node.value.value.s))
                 ELSE table[k]]
         ELSE table
    ELSE table

RECURSIVE ConstantsLoop(_, _)
ConstantsLoop(table, body) ==
    IF body = <<>> THEN table
    ELSE ConstantsLoop(ConstantsStep(table, Head(body)), Tail(body))

EmptyDict == [k \in {} |-> PyNone]

_extract_module_constants(t) == ConstantsLoop(EmptyDict, t.body)

\* _extract_from_signature: (inputs, outputs) from the declaration.
RECURSIVE SignatureInputs(_)
SignatureInputs(args) ==
    IF args = <<>> THEN <<>>
    ELSE IF Head(args).arg # "self"
    THEN (IF Head(args).annotation # "None"
          THEN <<(<<Head(args).arg, ":", " ", Head(args).annotation>>)>>
          ELSE <<(<<Head(args).arg>>)>>) \o SignatureInputs(Tail(args))
    ELSE SignatureInputs(Tail(args))

_extract_from_signature(func) ==
    <<PyStr(join(SignatureInputs(func.args), <<",", " ">>)),
      IF func.returns # "None" THEN PyStr(<<func.returns>>) ELSE PyStr(<<>>)>>

\* Mutation: a line starting with `-' is not rejected by the section tests.
DocLineStep_NoDashTest(st, rawline) ==
    LET line == strip(rawline) IN
    IF startswith(line, <<"Parameters">>) THEN [st EXCEPT !.section = "parameters"]
    ELSE IF startswith(line, <<"Returns">>) THEN [st EXCEPT !.section = "returns"]
    ELSE IF startswith(line, <<"-", "-", "-">>) THEN st
    ELSE IF st.section = "parameters" /\ line # <<>>
    THEN (IF Contains(line, ":") THEN [st EXCEPT !.inputs = Append(@, line)] ELSE st)
    ELSE IF st.section = "returns" /\ line # <<>>
    THEN [st EXCEPT !.outputs = Append(@, line)]
    ELSE st

\* The loop body of _parse_docstring on one line; st is
\* [section, inputs, outputs].
DocLineStep(st, rawline) ==
    LET line == strip(rawline) IN
    IF startswith(line, <<"Parameters">>) THEN [st EXCEPT !.section = "parameters"]
    ELSE IF startswith(line, <<"Returns">>) THEN [st EXCEPT !.section = "returns"]
    ELSE IF startswith(line, <<"-", "-", "-">>) THEN st
    ELSE IF st.section = "parameters" /\ line # <<>> /\ ~startswith(line, <<"-">>)
    THEN (IF Contains(line, ":") THEN [st EXCEPT !.inputs = Append(@, line)] ELSE st)
    ELSE IF st.section = "returns" /\ line # <<>> /\ ~startswith(line, <<"-">>)
    THEN [st EXCEPT !.outputs = Append(@, line)]
    ELSE st

RECURSIVE DocLines(_, _)
DocLines(st, lines) ==
    IF lines = <<>> THEN st ELSE DocLines(DocLineStep(st, Head(lines)), Tail(lines))

DocScan(docstring) ==
    DocLines([section |-> "None", inputs |-> <<>>, outputs |-> <<>>],
             split(docstring.s, NL))

\* Mutation: the signature is also used when the scan captured no line.
_parse_docstring_fallback_when_blank(docstring, func) ==
    IF ~Truthy(docstring) THEN _extract_from_signature(func)
    ELSE LET st == DocScan(docstring) IN
         IF st.inputs = <<>> /\ st.outputs = <<>> THEN _extract_from_signature(func)
         ELSE <<PyStr(join(st.inputs, <<",", " ">>)), PyStr(join(st.outputs, <<" ">>))>>

\* _parse_docstring(docstring, func_node)
_parse_docstring(docstring, func) ==
    IF ~Truthy(docstring) THEN _extract_from_signature(func)
    ELSE LET st == DocScan(docstring) IN
         <<PyStr(join(st.inputs, <<",", " ">>)), PyStr(join(st.outputs, <<" ">>))>>

\* First loop of _extract_tool_info over the simple statements of the body.
AttrStep(info, item, table) ==
    IF item.kind = "AnnAssign" /\ item.targets[1].type = "Name"
    THEN LET attr == item.targets[1].id IN
         IF attr = "name"
         THEN IF item.value.type = "Constant" THEN [info EXCEPT !.name = item.value.value]
              ELSE IF item.value.type = "Name" /\ item.value.id \in DOMAIN table
              THEN [info EXCEPT !.name = table[item.value.id]]
              ELSE info
         ELSE IF attr = "description"
         THEN IF item.value.type = "Constant"
              THEN [info EXCEPT !.description = item.value.value]
              ELSE IF item.value.type = "Name" /\ item.value.id \in DOMAIN table
              THEN [info EXCEPT !.description = table[item.value.id]]
              ELSE info
         ELSE info
    ELSE info

RECURSIVE AttrLoop(_, _, _)
AttrLoop(info, stmts, table) ==
    IF stmts = <<>> THEN info
    ELSE AttrLoop(AttrStep(info, Head(stmts), table), Tail(stmts), table)

\* Second loop of _extract_tool_info: the first FunctionDef child named _run.
RECURSIVE RunLoop(_, _, _)
RunLoop(info, t, kids) ==
    IF kids = <<>> THEN info
    ELSE LET item == t.nodes[Head(kids)] IN
         IF item.kind = "FunctionDef" /\ item.name = "_run"
         THEN LET io == _parse_docstring(item.doc, item) IN
              [info EXCEPT !.inputs = io[1], !.outputs = io[2]]
         ELSE RunLoop(info, t, Tail(kids))

\* Mutation: the final test looks at the name only.
_extract_tool_info_name_only(t, n, table) ==
    LET info0 == [name |-> PyStr(<<>>), description |-> PyStr(<<>>),
                  inputs |-> PyStr(<<>>), outputs |-> PyStr(<<>>)]
        info1 == AttrLoop(info0, t.nodes[n].stmts, table)
        info2 == RunLoop(info1, t, Children(t, n))
    IN  IF Truthy(info2.name) THEN info2 ELSE PyNone

\* Mutation: a class without a _run method is not a tool.
_extract_tool_info_require_run(t, n, table) ==
    LET info0 == [name |-> PyStr(<<>>), description |-> PyStr(<<>>),
                  inputs |-> PyStr(<<>>), outputs |-> PyStr(<<>>)]
        info1 == AttrLoop(info0, t.nodes[n].stmts, table)
        info2 == RunLoop(info1, t, Children(t, n))
        found == \E i \in 1..Len(Children(t, n)) :
                    /\ t.nodes[Children(t, n)[i]].kind = "FunctionDef"
                    /\ t.nodes[Children(t, n)[i]].name = "_run"
    IN  IF found /\ Truthy(info2.name) /\ Truthy(info2.description) THEN info2 ELSE PyNone

\* _extract_tool_info(class_node, constants): the record, or None.
_extract_tool_info(t, n, table) ==
    LET info0 == [name |-> PyStr(<<>>), description |-> PyStr(<<>>),
                  inputs |-> PyStr(<<>>), outputs |-> PyStr(<<>>)]
        info1 == AttrLoop(info0, t.nodes[n].stmts, table)
        info2 == RunLoop(info1, t, Children(t, n))
    IN  IF Truthy(info2.name) /\ Truthy(info2.description) THEN info2 ELSE PyNone

-----------------------------------------------------------------------------
(* parse_chemtoolbench.py                                                  *)

\* dict.get(key, default)
get(d, key, default) == IF key \in DOMAIN d THEN d[key] ELSE default

\* d[key] = value
Put(d, key, value) == [k \in DOMAIN d \cup {key} |-> IF k = key THEN value ELSE d[k]]

\* Mutation: the first line of the returns section is kept, not the last.
LabelLineStep_KeepFirst(st, rawline) ==
    LET line == strip(rawline) IN
    IF startswith(line, <<"Name", ":">>)
    THEN [st EXCEPT !.section = "name",
                    !.doc_parts = Put(@, "name", PyStr(strip(Remove(line, <<"Name", ":">>))))]
    ELSE IF startswith(line, <<"Description", ":">>)
    THEN [st EXCEPT !.section = "description",
                    !.doc_parts = Put(@, "description",
                                      PyStr(strip(Remove(line, <<"Description", ":">>))))]
    ELSE IF startswith(line, <<"Parameters", ":">>) THEN [st EXCEPT !.section = "parameters"]
    ELSE IF startswith(line, <<"Returns", ":">>) THEN [st EXCEPT !.section = "returns"]
    ELSE IF st.section = "parameters" /\ line # <<>> /\ Contains(line, ":")
    THEN [st EXCEPT !.parameters = Append(@, strip(line))]
    ELSE IF st.section = "returns" /\ line # <<>> /\ Contains(line, ":")
    THEN (IF "returns" \in DOMAIN st.doc_parts THEN st
          ELSE [st EXCEPT !.doc_parts = Put(@, "returns", PyStr(strip(line)))])
    ELSE st

\* The loop body of parse_docstring on one line; st is
\* [doc_parts, section, parameters].
LabelLineStep(st, rawline) ==
    LET line == strip(rawline) IN
    IF startswith(line, <<"Name", ":">>)
    THEN [st EXCEPT !.section = "name",
                    !.doc_parts = Put(@, "name", PyStr(strip(Remove(line, <<"Name", ":">>))))]
    ELSE IF startswith(line, <<"Description", ":">>)
    THEN [st EXCEPT !.section = "description",
                    !.doc_parts = Put(@, "description",
                                      PyStr(strip(Remove(line, <<"Description", ":">>))))]
    ELSE IF startswith(line, <<"Parameters", ":">>) THEN [st EXCEPT !.section = "parameters"]
    ELSE IF startswith(line, <<"Returns", ":">>) THEN [st EXCEPT !.section = "returns"]
    ELSE IF st.section = "parameters" /\ line # <<>> /\ Contains(line, ":")
    THEN [st EXCEPT !.parameters = Append(@, strip(line))]
    ELSE IF st.section = "returns" /\ line # <<>> /\ Contains(line, ":")
    THEN [st EXCEPT !.doc_parts = Put(@, "returns", PyStr(strip(line)))]
    ELSE st

RECURSIVE LabelLines(_, _)
LabelLines(st, lines) ==
    IF lines = <<>> THEN st ELSE LabelLines(LabelLineStep(st, Head(lines)), Tail(lines))

\* Mutation: the parameters key is set even when no line was captured.
parse_docstring_always_set(docstring) ==
    LET st == LabelLines([doc_parts |-> EmptyDict, section |-> "None", parameters |-> <<>>],
                         split(strip(docstring.s), NL))
    IN  Put(st.doc_parts, "parameters", PyStr(join(st.parameters, <<NL>>)))

\* parse_docstring(docstring): the doc_parts dict.
parse_docstring(docstring) ==
    LET st == LabelLines([doc_parts |-> EmptyDict, section |-> "None", parameters |-> <<>>],
                         split(strip(docstring.s), NL))
    IN  IF st.parameters # <<>>
        THEN Put(st.doc_parts, "parameters", PyStr(join(st.parameters, <<NL>>)))
        ELSE st.doc_parts

\* The parameters of parse_function_node, one "name (type)" line each.
FunctionParameters(args) ==
    [i \in 1..Len(args) |-> <<args[i].arg, " ", "(", args[i].annotation, ")">>]

\* Mutation: the name of the docstring takes precedence over the identifier.
parse_function_node_doc_name(func) ==
    IF ~Truthy(func.doc) THEN PyNone
    ELSE LET doc_parts == parse_docstring(func.doc)
             parameters == PyStr(join(FunctionParameters(func.args), <<NL>>))
             return_type == IF func.returns # "None" THEN PyStr(<<func.returns>>) ELSE PyNone
         IN  [name |-> get(doc_parts, "name", PyStr(<<func.name>>)),
              description |-> get(doc_parts, "description", PyStr(<<>>)),
              inputs |-> get(doc_parts, "parameters", parameters),
              outputs |-> get(doc_parts, "returns", return_type)]

\* parse_function_node(func_node): the record, or None.
parse_function_node(func) ==
    IF ~Truthy(func.doc) THEN PyNone
    ELSE LET doc_parts == parse_docstring(func.doc)
             parameters == PyStr(join(FunctionParameters(func.args), <<NL>>))
             return_type == IF func.returns # "None" THEN PyStr(<<func.returns>>) ELSE PyNone
         IN  [name |-> PyStr(<<func.name>>),
              description |-> get(doc_parts, "description", PyStr(<<>>)),
              inputs |-> get(doc_parts, "parameters", parameters),
              outputs |-> get(doc_parts, "returns", return_type)]

-----------------------------------------------------------------------------
(* The explored source modules.                                            *)

Text(lines) == PyStr(join(lines, <<NL>>))

Node(kind, name, stmts, doc, args, returns) ==
    [kind |-> kind, parent |-> 0, name |-> name, stmts |-> stmts, doc |-> doc,
     args |-> args, returns |-> returns]

Arg(name, annotation) == [arg |-> name, annotation |-> annotation]

Module(body, nodes) == [body |-> body, nodes |-> nodes]

ClassNode(stmts) == Node("ClassDef", "Tool", stmts, PyNone, <<>>, "None")

FunctionNode(name, doc, args, returns) == Node("FunctionDef", name, <<>>, doc, args, returns)

CompleteStmts ==
    <<AnnAssign("name", ConstantExpr(PyStr(<<"T">>))),
      AnnAssign("description", ConstantExpr(PyStr(<<"D">>)))>>

SelfX == <<Arg("self", "None"), Arg("x", "int")>>

\* (a) Nesting: up to MaxNodes compound statements in any tree shape.
RECURSIVE OnPath(_, _, _)
OnPath(parent, a, i) == a = i \/ (i > 0 /\ OnPath(parent, a, parent[i]))

PreOrder(parent) ==
    /\ \A i \in DOMAIN parent : parent[i] < i
    /\ \A i \in DOMAIN parent : i > 1 => OnPath(parent, parent[i], i - 1)

ShapeNodes ==
    { ClassNode(CompleteStmts),
      FunctionNode("f", Text(<<(<<"text">>)>>), <<>>, "None"),
      FunctionNode("k", Text(<<(<<"Name", ":", " ", "Foo">>),
                               (<<"Description", ":", " ", "Does">>)>>), <<>>, "None"),
      FunctionNode("g", PyNone, <<>>, "None"),
      Node("AsyncFunctionDef", "h", <<>>, Text(<<(<<"text">>)>>), <<>>, "None"),
      Node("If", "", <<>>, PyNone, <<>>, "None") }

ShapeModule ==
    \E n \in 0..MaxNodes : \E parent \in [1..n -> 0..(n - 1)] : \E content \in [1..n -> ShapeNodes] :
        /\ PreOrder(parent)
        /\ tree' = Module(<<>>, [i \in 1..n |-> [content[i] EXCEPT !.parent = parent[i]]])

\* (b) One class: its attribute statements against the module's constants.
ModuleBodies ==
    { <<>>,
      <<Assign(<<"K">>, ConstantExpr(PyStr(<<" ", "hello", " ">>)))>>,
      <<AnnAssign("K", ConstantExpr(PyStr(<<"hello">>))),
        Assign(<<"J">>, ConstantExpr(PyStr(<<" ">>)))>>,
      <<Assign(<<"K">>, ConstantExpr(PyInt(<<"5">>))),
        Assign(<<"J", "K">>, ConstantExpr(PyStr(<<"hello">>))),
        AnnAssign("J", AbsentExpr)>> }

ClassStmts ==
    { AnnAssign("name", ConstantExpr(PyStr(<<"T">>))),
      AnnAssign("name", ConstantExpr(PyStr(<<>>))),
      AnnAssign("name", NameExpr("K")),
      AnnAssign("name", AbsentExpr),
      AnnAssign("description", ConstantExpr(PyStr(<<"D">>))),
      AnnAssign("description", NameExpr("K")),
      AnnAssign("description", NameExpr("J")),
      Assign(<<"description">>, ConstantExpr(PyStr(<<"D">>))) }

RunMethod(doc, args, returns) ==
    [FunctionNode("_run", doc, args, returns) EXCEPT !.parent = 1]

ClassModule ==
    \E body \in ModuleBodies : \E n \in 0..MaxStmts : \E stmts \in [1..n -> ClassStmts] :
        \E rest \in { <<>>, <<RunMethod(PyNone, SelfX, "str")>>, <<ClassNode(CompleteStmts)>> } :
            tree' = Module(body, <<ClassNode(stmts)>> \o rest)

\* (c) One complete class whose _run carries a docstring.
DocLineSet ==
    { <<"Parameters">>, <<"Returns">>, <<"Parameters", ":", " ", "p">>,
      <<"-", "-", "-", "-">>, <<"-">>, <<"-", " ", "b", ":", "int">>,
      <<"x", " ", ":", " ", "int">>, <<" ", "y", ":", "str">>, <<"text">>, <<>> }

\* ast.get_docstring cleans the text: no blank first or last line remains.
Cleaned(lines) ==
    lines # <<>> /\ strip(lines[1]) # <<>> /\ strip(lines[Len(lines)]) # <<>>

RunDocModule ==
    \/ \E doc \in {PyNone, PyStr(<<>>)} :
          tree' = Module(<<>>, <<ClassNode(CompleteStmts), RunMethod(doc, SelfX, "str")>>)
    \/ \E n \in 1..MaxLines : \E lines \in [1..n -> DocLineSet] :
          /\ Cleaned(lines)
          /\ tree' = Module(<<>>, <<ClassNode(CompleteStmts), RunMethod(Text(lines), SelfX, "str")>>)

\* (d) One function whose docstring follows the labelled convention.
LabelLineSet ==
    { <<"Name", ":", " ", "Foo">>, <<"Description", ":", " ", "Does">>,
      <<"Parameters", ":">>, <<"Returns", ":">>, <<"Returns", ":", " ", "s", ":", "t">>,
      <<" ", "a", " ", "(", "int", ")", ":", " ", "v">>, <<"r", ":", "str">>,
      <<"text">>, <<>> }

LabelDocModule ==
    \E n \in 1..MaxLines : \E lines \in [1..n -> LabelLineSet] :
        \E sig \in { <<(<<Arg("x", "int")>>), "str">>, <<(<<Arg("y", "None")>>), "None">> } :
            /\ Cleaned(lines)
            /\ tree' = Module(<<>>, <<FunctionNode("tool", Text(lines), sig[1], sig[2])>>)

\* (e) Declarations: up to MaxArgs parameters, with and without annotations.
ArgSet == { Arg("self", "None"), Arg("x", "int"), Arg("y", "None") }

SignatureModule ==
    \E doc \in {PyNone, Text(<<(<<"text">>)>>)} : \E n \in 0..MaxArgs :
        \E args \in [1..n -> ArgSet] : \E returns \in {"None", "str"} :
            tree' = Module(<<>>, <<ClassNode(CompleteStmts), RunMethod(doc, args, returns)>>)

NestedOrSignatureModule == ShapeModule \/ SignatureModule

ClassOrRunDocModule == ClassModule \/ RunDocModule

-----------------------------------------------------------------------------
(* The two extractors, one step of the ast.walk loop at a time.            *)
(*   todo      the deque of ast.walk (node indices, 0 is the Module)       *)
(*   tools     the list being built, returned at "returned"                *)
(*   src       for each record of tools, the node it was extracted from    *)

Init ==
    /\ tree = Module(<<>>, <<>>)
    /\ pc = "idle"
    /\ constants = EmptyDict
    /\ todo = <<>>
    /\ tools = <<>>
    /\ src = <<>>

\* parse_file and parse_content up to the loop: the text read from the file
\* is parsed, the constants are extracted and ast.walk(tree) starts.
parse_content(source) ==
    /\ pc = "idle"
    /\ source
    /\ constants' = _extract_module_constants(tree')
    /\ todo' = <<0>>
    /\ tools' = <<>>
    /\ src' = <<>>
    /\ pc' = "class_walk"

\* One iteration of `for node in ast.walk(tree)' in parse_content.
ClassWalkStep ==
    /\ pc = "class_walk"
    /\ todo # <<>>
    /\ LET node == Head(todo)
           tool_info == _extract_tool_info(tree, node, constants)
       IN  /\ todo' = Tail(todo) \o Children(tree, node)
           /\ IF node # 0 /\ tree.nodes[node].kind = "ClassDef" /\ tool_info # PyNone
              THEN tools' = Append(tools, tool_info) /\ src' = Append(src, node)
              ELSE UNCHANGED <<tools, src>>
    /\ UNCHANGED <<tree, pc, constants>>

\* return tools
ClassReturn ==
    /\ pc = "class_walk"
    /\ todo = <<>>
    /\ pc' = "class_returned"
    /\ UNCHANGED <<tree, constants, todo, tools, src>>

\* parse_chemistry_tools on the text of one file, up to the loop.
parse_chemistry_tools(source) ==
    /\ pc = "idle"
    /\ source
    /\ todo' = <<0>>
    /\ tools' = <<>>
    /\ src' = <<>>
    /\ pc' = "function_walk"
    /\ UNCHANGED constants

\* One iteration of `for node in ast.walk(tree)' in parse_chemistry_tools.
FunctionWalkStep ==
    /\ pc = "function_walk"
    /\ todo # <<>>
    /\ LET node == Head(todo)
           tool_info == parse_function_node(tree.nodes[node])
       IN  /\ todo' = Tail(todo) \o Children(tree, node)
           /\ IF node # 0 /\ tree.nodes[node].kind = "FunctionDef" /\ tool_info # PyNone
              THEN tools' = Append(tools, tool_info) /\ src' = Append(src, node)
              ELSE UNCHANGED <<tools, src>>
    /\ UNCHANGED <<tree, pc, constants>>

\* return tools
FunctionReturn ==
    /\ pc = "function_walk"
    /\ todo = <<>>
    /\ pc' = "function_returned"
    /\ UNCHANGED <<tree, constants, todo, tools, src>>

\* Either extractor on the nested modules and on the declarations.
Next ==
    \/ parse_content(NestedOrSignatureModule)
    \/ ClassWalkStep
    \/ ClassReturn
    \/ parse_chemistry_tools(NestedOrSignatureModule)
    \/ FunctionWalkStep
    \/ FunctionReturn

Spec == Init /\ [][Next]_vars

\* The class-based extractor on the class and _run docstring modules.
NextCactus ==
    \/ parse_content(ClassOrRunDocModule)
    \/ ClassWalkStep
    \/ ClassReturn

SpecCactus == Init /\ [][NextCactus]_vars

\* The function-based extractor on the labelled docstring modules.
NextChemToolBench ==
    \/ parse_chemistry_tools(LabelDocModule)
    \/ FunctionWalkStep
    \/ FunctionReturn

SpecChemToolBench == Init /\ [][NextChemToolBench]_vars

-----------------------------------------------------------------------------
(* Vocabulary of the properties, stated on the source module and on the    *)
(* returned list, independently of the loops above.                        *)

Range(q) == {q[i] : i \in DOMAIN q}

Max(S) == CHOOSE m \in S : \A x \in S : x <= m

Min(S) == CHOOSE m \in S : \A x \in S : m <= x

\* The elements of q at the indices that satisfy Keep, in order.
Chosen(q, Keep(_)) ==
    LET idx == SelectSeq([i \in 1..Len(q) |-> i], Keep)
    IN  [k \in 1..Len(idx) |-> q[idx[k]]]

NodeIds == 1..Len(tree.nodes)

ClassDefs == {n \in NodeIds : tree.nodes[n].kind = "ClassDef"}

\* The methods named _run among the direct child statements of class n.
RunMethods(n) ==
    {c \in NodeIds : /\ tree.nodes[c].parent = n
                     /\ tree.nodes[c].kind = "FunctionDef"
                     /\ tree.nodes[c].name = "_run"}

\* Statement i of class n assigns attribute attr with an annotation.
Annotates(n, i, attr) ==
    /\ tree.nodes[n].stmts[i].kind = "AnnAssign"
    /\ tree.nodes[n].stmts[i].targets[1] = NameExpr(attr)

\* Statement i of class n gives attr a literal or a known constant.
Resolves(n, i, attr) ==
    /\ Annotates(n, i, attr)
    /\ \/ tree.nodes[n].stmts[i].value.type = "Constant"
       \/ /\ tree.nodes[n].stmts[i].value.type = "Name"
          /\ tree.nodes[n].stmts[i].value.id \in DOMAIN constants

\* The value attr has after the body of class n: that of the last
\* resolving statement, the empty string when there is none.
FieldOf(n, attr) ==
    LET R == {i \in 1..Len(tree.nodes[n].stmts) : Resolves(n, i, attr)}
        last == tree.nodes[n].stmts[Max(R)].value
    IN  IF R = {} THEN PyStr(<<>>)
        ELSE IF last.type = "Constant" THEN last.value
        ELSE constants[last.id]

\* Statement i of class n assigns name or description a bare identifier
\* that the constant table does not hold.
Unresolved(n, i) ==
    /\ Annotates(n, i, "name") \/ Annotates(n, i, "description")
    /\ tree.nodes[n].stmts[i].value.type = "Name"
    /\ tree.nodes[n].stmts[i].value.id \notin DOMAIN constants

\* The stripped lines of the docstring of a _run method.
RunLines(doc) ==
    LET raw == split(doc.s, NL) IN [i \in 1..Len(raw) |-> strip(raw[i])]

IsHeading(line) == startswith(line, <<"Parameters">>) \/ startswith(line, <<"Returns">>)

\* The section line i lies in: that of the most recent heading above it.
HeadingAbove(lines, i) ==
    LET H == {j \in 1..(i - 1) : IsHeading(lines[j])}
    IN  IF H = {} THEN "None"
        ELSE IF startswith(lines[Max(H)], <<"Parameters">>) THEN "parameters"
        ELSE "returns"

DashOnly(line) == line # <<>> /\ \A i \in 1..Len(line) : line[i] = "-"

ParameterLines(lines) ==
    Chosen(lines, LAMBDA i : /\ HeadingAbove(lines, i) = "parameters"
                             /\ lines[i] # <<>>
                             /\ lines[i][1] # "-"
                             /\ Contains(lines[i], ":")
                             /\ ~IsHeading(lines[i]))

ReturnLines(lines) ==
    Chosen(lines, LAMBDA i : /\ HeadingAbove(lines, i) = "returns"
                             /\ lines[i] # <<>>
                             /\ lines[i][1] # "-"
                             /\ ~IsHeading(lines[i]))

-----------------------------------------------------------------------------
(* Properties of the class-based extractor (SpecCactus).                   *)

\* C1: every record of the list built by parse_content has a non-empty
\* name and a non-empty description, and a class whose name or description
\* is empty after its body was scanned contributes no record.
C1_Completeness ==
    /\ pc \in {"class_walk", "class_returned"} =>
          \A k \in DOMAIN tools : Truthy(tools[k].name) /\ Truthy(tools[k].description)
    /\ pc = "class_returned" =>
          \A n \in ClassDefs :
              ~Truthy(FieldOf(n, "name")) \/ ~Truthy(FieldOf(n, "description"))
                  => n \notin Range(src)

\* A class with a name but an empty description was skipped and the class
\* after it was emitted.
C1_Witness ==
    /\ pc = "class_returned"
    /\ src = <<2>>
    /\ Truthy(FieldOf(1, "name"))
    /\ ~Truthy(FieldOf(1, "description"))
    /\ 1 \in ClassDefs

\* C2 as stated: a class without a _run method among its direct child
\* statements yields no record.
C2_MissingRunExcluded ==
    pc = "class_returned" =>
        \A n \in ClassDefs : RunMethods(n) = {} => n \notin Range(src)

\* C2 amended: a class without a _run method yields a record exactly when
\* its name and description are both non-empty, and the inputs and outputs
\* of that record are empty strings.
C2_MissingRunEmitted ==
    pc = "class_returned" =>
        \A n \in ClassDefs : RunMethods(n) = {} =>
            /\ n \in Range(src) <=>
                   Truthy(FieldOf(n, "name")) /\ Truthy(FieldOf(n, "description"))
            /\ \A k \in DOMAIN src : src[k] = n =>
                   tools[k].inputs = PyStr(<<>>) /\ tools[k].outputs = PyStr(<<>>)

\* A record was returned for a class that has no _run method.
C2_Witness ==
    /\ pc = "class_returned"
    /\ \E k \in DOMAIN src : RunMethods(src[k]) = {}

\* The docstring of the _run method of class n leaves both lists empty.
CapturesNothing(n) ==
    LET doc == tree.nodes[Min(RunMethods(n))].doc
    IN  ParameterLines(RunLines(doc)) = <<>> /\ ReturnLines(RunLines(doc)) = <<>>

\* C3 as stated: the inputs and outputs are those of the signature whenever
\* _run has no docstring or its docstring captures no line.
C3_FallbackWhenNothingCaptured ==
    pc = "class_returned" =>
        \A k \in DOMAIN src : RunMethods(src[k]) # {} =>
            LET run == tree.nodes[Min(RunMethods(src[k]))]
            IN  ~Truthy(run.doc) \/ CapturesNothing(src[k]) =>
                    <<tools[k].inputs, tools[k].outputs>> = _extract_from_signature(run)

\* C3 amended: the inputs and outputs are those of the signature when _run
\* has no docstring or an empty one; a docstring that has text but captures
\* no line gives empty inputs and outputs.
C3_FallbackOnlyWithoutDocstring ==
    pc = "class_returned" =>
        \A k \in DOMAIN src : RunMethods(src[k]) # {} =>
            LET run == tree.nodes[Min(RunMethods(src[k]))]
            IN  /\ ~Truthy(run.doc) =>
                    <<tools[k].inputs, tools[k].outputs>> =
                        <<PyStr(<<"x", ":", " ", "int">>), PyStr(<<"str">>)>>
                /\ Truthy(run.doc) /\ CapturesNothing(src[k]) =>
                    tools[k].inputs = PyStr(<<>>) /\ tools[k].outputs = PyStr(<<>>)

\* A record was returned for a _run whose docstring has text and captures
\* no line.
C3_Witness ==
    /\ pc = "class_returned"
    /\ \E k \in DOMAIN src :
          /\ RunMethods(src[k]) # {}
          /\ Truthy(tree.nodes[Min(RunMethods(src[k]))].doc)
          /\ CapturesNothing(src[k])

\* C7: a class whose body assigns name or description a bare identifier
\* absent from the constant table yields no record, whatever else the body
\* holds.
C7_UnresolvedExcluded ==
    pc = "class_returned" =>
        \A n \in ClassDefs :
            (\E i \in 1..Len(tree.nodes[n].stmts) : Unresolved(n, i)) => n \notin Range(src)

\* C9: the inputs parsed from a docstring of _run are the stripped lines
\* under a Parameters heading that are non-empty, do not start with `-',
\* contain `:' and are no heading, in order and joined with ", "; the
\* outputs are the non-empty lines under a Returns heading that do not
\* start with `-', joined with " "; so a line of dashes is in neither and
\* changes no section.
C9_ParsedParameters ==
    pc = "class_returned" =>
        \A k \in DOMAIN src : RunMethods(src[k]) # {} =>
            LET doc == tree.nodes[Min(RunMethods(src[k]))].doc
            IN  Truthy(doc) =>
                  /\ tools[k].inputs = PyStr(join(ParameterLines(RunLines(doc)), <<",", " ">>))
                  /\ tools[k].outputs = PyStr(join(ReturnLines(RunLines(doc)), <<" ">>))
                  /\ \A i \in 1..Len(RunLines(doc)) : DashOnly(RunLines(doc)[i]) =>
                        /\ RunLines(doc)[i] \notin Range(ParameterLines(RunLines(doc)))
                        /\ RunLines(doc)[i] \notin Range(ReturnLines(RunLines(doc)))

\* A parameter line was captured below a line of dashes that follows the
\* Parameters heading.
C9_Witness ==
    /\ pc = "class_returned"
    /\ \E k \in DOMAIN src : RunMethods(src[k]) # {} /\
          LET lines == RunLines(tree.nodes[Min(RunMethods(src[k]))].doc)
          IN  /\ Len(lines) >= 3
              /\ IsHeading(lines[1])
              /\ DashOnly(lines[2])
              /\ tools[k].inputs = PyStr(lines[3])
              /\ lines[3] # <<>>

-----------------------------------------------------------------------------
(* Properties of the function-based extractor (SpecChemToolBench).         *)

\* The stripped lines parse_docstring scans.
LabelledLines(doc) ==
    LET raw == split(strip(doc.s), NL) IN [i \in 1..Len(raw) |-> strip(raw[i])]

Labels == {"Name", "Description", "Parameters", "Returns"}

IsLabel(line) == \E l \in Labels : startswith(line, <<l, ":">>)

\* The label of the most recent label line above line i.
LabelAbove(lines, i) ==
    LET H == {j \in 1..(i - 1) : IsLabel(lines[j])}
    IN  IF H = {} THEN "None" ELSE lines[Max(H)][1]

\* The non-empty lines under the label that contain `:' and are no label.
CapturedUnder(lines, label) ==
    Chosen(lines, LAMBDA i : /\ LabelAbove(lines, i) = label
                             /\ lines[i] # <<>>
                             /\ Contains(lines[i], ":")
                             /\ ~IsLabel(lines[i]))

HasParametersLabel(lines) ==
    \E i \in 1..Len(lines) : startswith(lines[i], <<"Parameters", ":">>)

\* The rendering of the declared parameters in parse_function_node.
Rendered(func) ==
    PyStr(join([i \in 1..Len(func.args) |->
                   <<func.args[i].arg, " ", "(", func.args[i].annotation, ")">>], <<NL>>))

\* C6 as stated: the inputs come from the docstring whenever it has a
\* Parameters: label, even when the section captures no line.
C6_DocstringWhenLabelled ==
    pc = "function_returned" =>
        \A k \in DOMAIN src :
            LET lines == LabelledLines(tree.nodes[src[k]].doc)
            IN  HasParametersLabel(lines) =>
                    tools[k].inputs = PyStr(join(CapturedUnder(lines, "Parameters"), <<NL>>))

\* C6 amended: the inputs come from the docstring whenever its Parameters:
\* section captures at least one line; otherwise, the label being absent or
\* its section capturing nothing, they are the rendering of the signature.
C6_DocstringWhenCaptured ==
    pc = "function_returned" =>
        \A k \in DOMAIN src :
            LET lines == LabelledLines(tree.nodes[src[k]].doc)
            IN  IF CapturedUnder(lines, "Parameters") # <<>>
                THEN tools[k].inputs = PyStr(join(CapturedUnder(lines, "Parameters"), <<NL>>))
                ELSE tools[k].inputs = Rendered(tree.nodes[src[k]])

\* A docstring with a Parameters: label that captures no line gave the
\* rendering of the signature.
C6_Witness ==
    /\ pc = "function_returned"
    /\ \E k \in DOMAIN src :
          LET lines == LabelledLines(tree.nodes[src[k]].doc)
          IN  /\ HasParametersLabel(lines)
              /\ CapturedUnder(lines, "Parameters") = <<>>
              /\ tools[k].inputs = Rendered(tree.nodes[src[k]])

\* C8: the outputs are the last non-empty line with a `:' that is no label
\* line and lies in the returns section; without such a line they are the
\* return annotation as unparsed (None when there is none).
C8_ReturnsLastLine ==
    pc = "function_returned" =>
        \A k \in DOMAIN src :
            LET func == tree.nodes[src[k]]
                captured == CapturedUnder(LabelledLines(func.doc), "Returns")
            IN  IF captured # <<>> THEN tools[k].outputs = PyStr(captured[Len(captured)])
                ELSE IF func.returns # "None" THEN tools[k].outputs = PyStr(<<func.returns>>)
                ELSE tools[k].outputs = PyNone

\* Two different lines were captured in the returns section and the
\* second one is the outputs.
C8_Witness ==
    /\ pc = "function_returned"
    /\ \E k \in DOMAIN src :
          LET captured == CapturedUnder(LabelledLines(tree.nodes[src[k]].doc), "Returns")
          IN  /\ Len(captured) >= 2
              /\ captured[1] # captured[2]
              /\ tools[k].outputs = PyStr(captured[Len(captured)])

-----------------------------------------------------------------------------
(* Properties of both extractors (Spec).                                   *)

RECURSIVE Depth(_)
Depth(n) == IF n = 0 THEN 0 ELSE 1 + Depth(tree.nodes[n].parent)

Returned == pc \in {"class_returned", "function_returned"}

\* C4 as stated: the records are in source order, also when a definition
\* nested in an earlier one precedes a later top-level definition.
C4_DocumentOrder ==
    Returned => \A i, j \in DOMAIN src : i < j => src[i] < src[j]

\* C4 amended: the records are in breadth-first order of the syntax tree:
\* a definition at a smaller depth of the tree comes first, and definitions
\* at the same depth are in source order.
C4_BreadthFirstOrder ==
    \A i, j \in DOMAIN src : i < j =>
        \/ Depth(src[i]) < Depth(src[j])
        \/ Depth(src[i]) = Depth(src[j]) /\ src[i] < src[j]

\* A nested definition was returned after a definition that starts later
\* in the source.
C4_Witness ==
    /\ Returned
    /\ \E i, j \in DOMAIN src : i < j /\ src[i] > src[j]

\* The entries the signature should give: one per parameter other than
\* self, the bare name when the parameter has no annotation.
RECURSIVE ExpectedEntries(_, _)
ExpectedEntries(args, path) ==
    IF args = <<>> THEN <<>>
    ELSE IF Head(args).arg = "self" THEN ExpectedEntries(Tail(args), path)
    ELSE <<IF Head(args).annotation = "None" THEN <<Head(args).arg>>
           ELSE IF path = "class" THEN <<Head(args).arg, ":", " ", Head(args).annotation>>
           ELSE <<Head(args).arg, " ", "(", Head(args).annotation, ")">>>>
         \o ExpectedEntries(Tail(args), path)

\* C5: in both paths the inputs derived from the signature have one entry
\* per parameter other than self, a parameter without annotation is its
\* bare name, and no parameter gives the empty string.
C5_SignatureEntries ==
    /\ pc = "class_returned" =>
          \A k \in DOMAIN src : RunMethods(src[k]) # {} =>
              LET run == tree.nodes[Min(RunMethods(src[k]))]
              IN  ~Truthy(run.doc) =>
                      tools[k].inputs = PyStr(join(ExpectedEntries(run.args, "class"), <<",", " ">>))
    /\ pc = "function_returned" =>
          \A k \in DOMAIN src :
              LET func == tree.nodes[src[k]]
              IN  CapturedUnder(LabelledLines(func.doc), "Parameters") = <<>> =>
                      tools[k].inputs = PyStr(join(ExpectedEntries(func.args, "function"), <<NL>>))

\* C10: the function-based extractor returns exactly one record for every
\* FunctionDef with a non-empty docstring and none for any other node; the
\* name of the record is the identifier of the function, and a docstring
\* without a label line gives the empty description.
C10_OneRecordPerDocstring ==
    pc = "function_returned" =>
        /\ Len(src) = Cardinality(Range(src))
        /\ Range(src) = {n \in NodeIds : /\ tree.nodes[n].kind = "FunctionDef"
                                         /\ tree.nodes[n].doc # PyNone
                                         /\ tree.nodes[n].doc # PyStr(<<>>)}
        /\ \A k \in DOMAIN src :
              /\ tools[k].name = PyStr(<<tree.nodes[src[k]].name>>)
              /\ (\A i \in 1..Len(LabelledLines(tree.nodes[src[k]].doc)) :
                      ~IsLabel(LabelledLines(tree.nodes[src[k]].doc)[i]))
                  => tools[k].description = PyStr(<<>>)

\* A function whose docstring names it Foo was returned under its own
\* identifier, one without labels was returned with an empty description,
\* and a function without docstring was not returned.
C10_Witness ==
    /\ pc = "function_returned"
    /\ \E k \in DOMAIN src :
          /\ IsLabel(LabelledLines(tree.nodes[src[k]].doc)[1])
          /\ tools[k].name = PyStr(<<"k">>)
    /\ \E k \in DOMAIN src : tools[k].name = PyStr(<<"f">>) /\ tools[k].description = PyStr(<<>>)
    /\ \E n \in NodeIds : tree.nodes[n].kind = "FunctionDef" /\ tree.nodes[n].doc = PyNone

====
